---- MODULE Spec2Model ----
(***************************************************************************)
(* Model of the CamPay mobile-money command-line client.                   *)
(*                                                                         *)
(* src/main.go holds two implementations of the same program:              *)
(*   implementation 1: lines   1..377 (budget 60, no shared HTTP client)   *)
(*   implementation 2: lines 378..760 (budget 40, formatAPIError,          *)
(*                                     normalizeStatus, promptPhone, ...)  *)
(* The variable impl selects the implementation a run executes.            *)
(***************************************************************************)
EXTENDS Integers, Sequences, FiniteSets, TLC

(***************************************************************************)
(* Bounds of the model                                                     *)
(***************************************************************************)
\* Largest number of consecutive empty lines the user types at one prompt.
MaxEmptyLines == 2

(***************************************************************************)
(* Strings are sequences of one-character strings, so that the string      *)
(* functions of the standard library are computed and not assumed.         *)
(***************************************************************************)
LowerLetters == <<"a","b","c","d","e","f","g","h","i","j","k","l","m",
                  "n","o","p","q","r","s","t","u","v","w","x","y","z">>
UpperLetters == <<"A","B","C","D","E","F","G","H","I","J","K","L","M",
                  "N","O","P","Q","R","S","T","U","V","W","X","Y","Z">>
Digits       == <<"0","1","2","3","4","5","6","7","8","9">>

\* unicode.IsSpace restricted to the characters of the model
IsSpace(c) == c \in {" ", "\t", "\n", "\r"}

UpperChar(c) ==
    IF \E i \in 1..Len(LowerLetters) : LowerLetters[i] = c
    THEN UpperLetters[CHOOSE i \in 1..Len(LowerLetters) : LowerLetters[i] = c]
    ELSE c

\* strings.ToUpper
ToUpper(s) == [i \in 1..Len(s) |-> UpperChar(s[i])]

RECURSIVE TrimLeft(_)
TrimLeft(s) ==
    IF s # <<>> /\ IsSpace(Head(s)) THEN TrimLeft(Tail(s)) ELSE s

RECURSIVE TrimRight(_)
TrimRight(s) ==
    IF s # <<>> /\ IsSpace(s[Len(s)])
    THEN TrimRight(SubSeq(s, 1, Len(s) - 1))
    ELSE s

\* strings.TrimSpace
TrimSpace(s) == TrimRight(TrimLeft(s))

\* strings.ReplaceAll(s, " ", "")
RECURSIVE RemoveBlanks(_)
RemoveBlanks(s) ==
    IF s = <<>> THEN <<>>
    ELSE IF Head(s) = " " THEN RemoveBlanks(Tail(s))
    ELSE <<Head(s)>> \o RemoveBlanks(Tail(s))

\* strings.HasPrefix
HasPrefix(s, p) == Len(s) >= Len(p) /\ SubSeq(s, 1, Len(p)) = p

IsDigit(c) == \E i \in 1..Len(Digits) : Digits[i] = c
DigitVal(c) == (CHOOSE i \in 1..Len(Digits) : Digits[i] = c) - 1

RECURSIVE DigitsValue(_)
DigitsValue(s) ==
    IF s = <<>> THEN 0
    ELSE 10 * DigitsValue(SubSeq(s, 1, Len(s) - 1)) + DigitVal(s[Len(s)])

\* The decimal digits of the largest int (2^63 - 1) and of the magnitude of
\* the smallest (2^63), for the range check of strconv.Atoi
MaxIntDigits == <<"9","2","2","3","3","7","2","0","3","6","8","5","4","7","7","5","8","0","7">>
MinIntDigits == <<"9","2","2","3","3","7","2","0","3","6","8","5","4","7","7","5","8","0","8">>

RECURSIVE StripZeros(_)
StripZeros(s) ==
    IF Len(s) > 1 /\ Head(s) = "0" THEN StripZeros(Tail(s)) ELSE s

\* a > b for two digit strings of the same length
RECURSIVE DigitsGreater(_, _)
DigitsGreater(a, b) ==
    IF a = <<>> THEN FALSE
    ELSE IF Head(a) # Head(b) THEN DigitVal(Head(a)) > DigitVal(Head(b))
    ELSE DigitsGreater(Tail(a), Tail(b))

\* The magnitude does not fit a 64-bit int
OutOfRange(digits, negative) ==
    LET sig   == StripZeros(digits)
        limit == IF negative THEN MinIntDigits ELSE MaxIntDigits
    IN  \/ Len(sig) > Len(limit)
        \/ Len(sig) = Len(limit) /\ DigitsGreater(sig, limit)

\* strconv.Atoi: an optional sign followed by at least one decimal digit; a
\* value outside the range of int is an error (strconv.ErrRange).  The
\* values in range that the model feeds it have at most nine digits.
Atoi(s) ==
    LET signed   == s # <<>> /\ Head(s) \in {"+", "-"}
        negative == signed /\ Head(s) = "-"
        body     == IF signed THEN Tail(s) ELSE s
        ok       == body # <<>> /\ \A i \in 1..Len(body) : IsDigit(body[i])
    IN  IF ~ok THEN [err |-> TRUE, n |-> 0]
        ELSE IF OutOfRange(body, negative) THEN [err |-> TRUE, n |-> 0]
        ELSE [err |-> FALSE,
              n   |-> IF negative
                      THEN 0 - DigitsValue(body) ELSE DigitsValue(body)]

(***************************************************************************)
(* Status strings the gateway may put in the "status" field                *)
(***************************************************************************)
SUCCESSFUL == <<"S","U","C","C","E","S","S","F","U","L">>
FAILED     == <<"F","A","I","L","E","D">>
PENDING    == <<"P","E","N","D","I","N","G">>

LowerChar(c) ==
    IF \E i \in 1..Len(UpperLetters) : UpperLetters[i] = c
    THEN LowerLetters[CHOOSE i \in 1..Len(UpperLetters) : UpperLetters[i] = c]
    ELSE c
LowerOf(s) == [i \in 1..Len(s) |-> LowerChar(s[i])]

Statuses ==
    { SUCCESSFUL, FAILED, PENDING,
      LowerOf(SUCCESSFUL),                               \* "successful"
      <<" ">> \o LowerOf(SUCCESSFUL) \o <<" ">>,         \* " successful "
      <<"F">> \o LowerOf(Tail(FAILED)) \o <<"\n">>,      \* "Failed\n"
      <<>>,                                              \* ""
      <<"E","X","P","I","R","E","D">> }                  \* a status the client does not model

(***************************************************************************)
(* Errors.  The text of an error is the sequence of the pieces fmt.Errorf  *)
(* puts together; wrapping with %w keeps the pieces of the wrapped error.  *)
(***************************************************************************)
None == [kind |-> "nil", text |-> <<>>]
Err(kind, text) == [kind |-> kind, text |-> text]
Wrap(prefix, e) == [kind |-> e.kind, text |-> <<prefix>> \o e.text]
Contains(e, piece) == \E i \in 1..Len(e.text) : e.text[i] = piece

(***************************************************************************)
(* HTTP response bodies and encoding/json.                                 *)
(* A body is its raw text, its JSON shape and, for an object, its members. *)
(* A member is a JSON string, a JSON number or absent.                     *)
(***************************************************************************)
FieldNames == {"code", "message", "token", "reference", "status"}

Str(v) == [ty |-> "str", v |-> v]
NumStr == [ty |-> "num", v |-> "401"]
NumSeq == [ty |-> "num", v |-> <<"4","0","1">>]
Zero(n) == IF n = "status" THEN <<>> ELSE ""
Absent(n) == [ty |-> "absent", v |-> Zero(n)]

Obj(raw, members) ==
    [raw |-> raw, kind |-> "object",
     f |-> [n \in FieldNames |->
              IF n \in DOMAIN members THEN members[n] ELSE Absent(n)]]
NotObj(raw, kind) ==
    [raw |-> raw, kind |-> kind, f |-> [n \in FieldNames |-> Absent(n)]]

\* json.Unmarshal(body, &v) for a struct v whose string fields are `names`:
\* a syntax error or a non-object leaves v zero and returns an error (null
\* returns no error); a member of the wrong JSON type is skipped and the
\* error is returned after the other members have been stored.
Unmarshal(body, names) ==
    IF body.kind = "object"
    THEN [err |-> \E n \in names : body.f[n].ty = "num",
          v   |-> [n \in names |->
                     IF body.f[n].ty = "str" THEN body.f[n].v ELSE Zero(n)]]
    ELSE [err |-> body.kind # "null", v |-> [n \in names |-> Zero(n)]]

\* Non-200 responses: status code and body
ErrorResponses ==
    { [code |-> 500, body |-> NotObj("internal error", "garbage")],
      [code |-> 502, body |-> NotObj("", "garbage")],
      [code |-> 500, body |-> NotObj("null", "null")],
      [code |-> 400,
       body |-> Obj("{\"code\":\"ER201\",\"message\":\"Invalid amount\"}",
                    [code |-> Str("ER201"), message |-> Str("Invalid amount")])],
      [code |-> 400,
       body |-> Obj("{\"code\":\"ER101\",\"message\":\"\"}",
                    [code |-> Str("ER101"), message |-> Str("")])],
      [code |-> 401,
       body |-> Obj("{\"detail\":\"Invalid token\"}", <<>>)],
      [code |-> 401,
       body |-> Obj("{\"code\":401,\"message\":\"Unauthorized\"}",
                    [code |-> NumStr, message |-> Str("Unauthorized")])] }

TokenBodies ==
    { Obj("{\"token\":\"abc\"}", [token |-> Str("abc")]),
      Obj("{}", <<>>),
      Obj("{\"token\":401}", [token |-> NumStr]),
      NotObj("<html>", "garbage"),
      NotObj("null", "null"),
      NotObj("[]", "array") }

CollectBodies ==
    { Obj("{\"reference\":\"r1\",\"status\":\"PENDING\"}",
          [reference |-> Str("r1"), status |-> Str(PENDING)]),
      Obj("{\"status\":\"PENDING\"}", [status |-> Str(PENDING)]),
      Obj("{\"reference\":401}", [reference |-> NumStr]),
      NotObj("<html>", "garbage"),
      NotObj("null", "null") }

TxnBodies ==
    { Obj("{\"reference\":\"r1\",\"status\":...}",
          [reference |-> Str("r1"), status |-> Str(s)]) : s \in Statuses }
    \cup
    { Obj("{\"status\":401}", [status |-> NumSeq]),
      NotObj("<html>", "garbage"),
      NotObj("", "garbage"),
      NotObj("null", "null") }

\* What one round trip can produce: client.Do fails (doErr), the body cannot
\* be read completely (readErr), or a status code and a body arrive.
Responses(okBodies) ==
    { [doErr |-> TRUE, readErr |-> FALSE, code |-> 0, body |-> NotObj("", "garbage")] }
    \cup { [doErr |-> FALSE, readErr |-> TRUE, code |-> c, body |-> NotObj("", "garbage")]
             : c \in {200, 500} }
    \cup { [doErr |-> FALSE, readErr |-> FALSE, code |-> 200, body |-> b]
             : b \in okBodies }
    \cup { [doErr |-> FALSE, readErr |-> FALSE, code |-> e.code, body |-> e.body]
             : e \in ErrorResponses }

(***************************************************************************)
(* Response / error decoding                                               *)
(***************************************************************************)
\* formatAPIError that leaves the gateway's code out of the text
formatAPIErrorNoCode(status, body) ==
    LET er == Unmarshal(body, {"code", "message"})
    IN  IF ~er.err /\ er.v["message"] # ""
        THEN Err("api", <<"API error (", ToString(status), "): ", er.v["message"]>>)
        ELSE Err("api", <<"API error (", ToString(status), "): ", body.raw>>)

\* implementation 2, formatAPIError
formatAPIError(status, body) ==
    LET er == Unmarshal(body, {"code", "message"})
    IN  IF ~er.err /\ er.v["message"] # ""
        THEN Err("api", <<"API error (", ToString(status), "): ",
                          er.v["code"], " - ", er.v["message"]>>)
        ELSE Err("api", <<"API error (", ToString(status), "): ", body.raw>>)

\* implementation 1, the non-200 branch of each of the three calls
inlineAPIError(what, status, body) ==
    LET er == Unmarshal(body, {"code", "message"})
    IN  Err("api", <<what, ToString(status), "): ",
                     er.v["code"], " - ", er.v["message"]>>)

\* The error of a non-200 response, per implementation.
apiError(i, what, status, body) ==
    IF i = 1 THEN inlineAPIError(what, status, body)
    ELSE formatAPIError(status, body)

\* The part common to the three calls up to the status-code test: the
\* transport error if any, else the non-200 error if any, else None.
\* Implementation 1 fails when the body cannot be read; implementation 2
\* discards that error and goes on with what was read.
callError(i, what, resp) ==
    IF resp.doErr
    THEN Err("transport", IF i = 1 THEN <<"failed to send request: ", "net">>
                          ELSE <<"net">>)
    ELSE IF i = 1 /\ resp.readErr
    THEN Err("transport", <<"failed to read response: ", "io">>)
    ELSE IF resp.code # 200
    THEN apiError(i, what, resp.code, resp.body)
    ELSE None

decodeError(i, what) ==
    Err("decode", IF i = 1 THEN <<what, "json">> ELSE <<"json">>)

\* getAuthToken: the token and the error it returns for a response
getAuthToken(i, resp) ==
    LET e == callError(i, "authentication failed (status ", resp)
        d == Unmarshal(resp.body, {"token"})
    IN  IF e # None THEN [token |-> "", err |-> e]
        ELSE IF d.err
        THEN [token |-> "", err |-> decodeError(i, "failed to parse token response: ")]
        ELSE [token |-> d.v["token"], err |-> None]

\* collectPayment: the reference and the error it returns for a response
collectPayment(i, resp) ==
    LET e == callError(i, "collect request failed (status ", resp)
        d == Unmarshal(resp.body, {"reference"})
    IN  IF e # None THEN [reference |-> "", err |-> e]
        ELSE IF d.err
        THEN [reference |-> "", err |-> decodeError(i, "failed to parse collect response: ")]
        ELSE [reference |-> d.v["reference"], err |-> None]

\* A nil *TransactionResponse
NoRecord == [present |-> FALSE, Reference |-> "", Status |-> <<>>]

\* checkTransactionStatus that discards the error of json.Unmarshal
checkTransactionStatusNoDecodeCheck(i, resp) ==
    LET e == callError(i, "status check failed (status ", resp)
        d == Unmarshal(resp.body, {"reference", "status"})
    IN  IF e # None THEN [txn |-> NoRecord, err |-> e]
        ELSE [txn |-> [present |-> TRUE, Reference |-> d.v["reference"],
                       Status |-> d.v["status"]],
              err |-> None]

\* checkTransactionStatus: the record and the error it returns for a response
checkTransactionStatus(i, resp) ==
    LET e == callError(i, "status check failed (status ", resp)
        d == Unmarshal(resp.body, {"reference", "status"})
    IN  IF e # None THEN [txn |-> NoRecord, err |-> e]
        ELSE IF d.err
        THEN [txn |-> NoRecord,
              err |-> decodeError(i, "failed to parse transaction response: ")]
        ELSE [txn |-> [present |-> TRUE, Reference |-> d.v["reference"],
                       Status |-> d.v["status"]],
              err |-> None]

(***************************************************************************)
(* Interactive input                                                       *)
(***************************************************************************)
EOF == [eof |-> TRUE, line |-> <<>>]
Line(l) == [eof |-> FALSE, line |-> l]

\* promptUser on one line read from the terminal (the line without its
\* newline; eof when ReadString fails).  Implementation 2 prompts again on an
\* empty line (`again`); implementation 1 returns the empty string.
promptUser(i, in) ==
    LET input == TrimSpace(in.line \o <<"\n">>)
    IN  IF in.eof
        THEN [again |-> FALSE, value |-> <<>>,
              err |-> Err("input", IF i = 1 THEN <<"failed to read input: ", "EOF">>
                                   ELSE <<"EOF">>)]
        ELSE IF i = 2 /\ input = <<>>
        THEN [again |-> TRUE, value |-> <<>>, err |-> None]
        ELSE [again |-> FALSE, value |-> input, err |-> None]

CountryCode == <<"2","3","7">>

\* The phone check both implementations end with
validPhone(phone) == HasPrefix(phone, CountryCode) /\ Len(phone) = 12

\* promptPhone without the strings.ReplaceAll(phone, " ", "") step
normalizePhoneKeepBlanks(value) ==
    LET phone == TrimSpace(value)
    IN  IF Len(phone) = 9 /\ phone[1] = "6" THEN CountryCode \o phone ELSE phone

\* implementation 2, promptPhone after promptUser returned `value`
normalizePhone(value) ==
    LET phone == RemoveBlanks(TrimSpace(value))
    IN  IF Len(phone) = 9 /\ phone[1] = "6" THEN CountryCode \o phone ELSE phone

\* The phone number the run goes on with, and the validation error
phoneResult(i, value) ==
    LET phone == IF i = 1 THEN value ELSE normalizePhone(value)
    IN  IF ~validPhone(phone)
        THEN [phone |-> <<>>,
              err |-> Err("validation",
                          IF i = 1
                          THEN <<"invalid phone number format. Must start with 237 and be 12 digits total">>
                          ELSE <<"invalid phone number format">>)]
        ELSE [phone |-> phone, err |-> None]

\* The amount check with amount < 0 in the place of amount <= 0
amountResultAllowsZero(i, value) ==
    LET a == Atoi(value)
    IN  IF a.err \/ a.n < 0
        THEN [amount |-> 0,
              err |-> Err("validation",
                          IF i = 1 THEN <<"invalid amount. Must be a positive integer">>
                          ELSE <<"amount must be a positive integer">>)]
        ELSE [amount |-> a.n, err |-> None]

\* The amount check of both implementations
amountResult(i, value) ==
    LET a == Atoi(value)
    IN  IF a.err \/ a.n <= 0
        THEN [amount |-> 0,
              err |-> Err("validation",
                          IF i = 1 THEN <<"invalid amount. Must be a positive integer">>
                          ELSE <<"amount must be a positive integer">>)]
        ELSE [amount |-> a.n, err |-> None]

PhoneLines ==
    { <<"2","3","7","6","7","0","1","2","3","4","5","6">>,        \* 237670123456
      <<"6","7","0","1","2","3","4","5","6">>,                    \* 670123456
      <<"6","7","0"," ","1","2","3"," ","4","5","6">>,            \* 670 123 456
      <<"7","7","0","1","2","3","4","5","6">>,                    \* 770123456
      <<"+","2","3","7","6","7","0","1","2","3","4","5">>,        \* +23767012345
      <<"2","3","7","a","b","c","d","e","f","g","h","i">>,        \* 237abcdefghi
      <<"2","3","7","6","7","0">>,                                \* 237670
      <<"6","7","0","\t","1","2","3","4","5","6">>,               \* 670<TAB>123456
      <<>>,                                                       \* empty line
      <<" ">> }                                                   \* blank line

AmountLines ==
    { <<"1","0","0","0">>, <<"+","5">>,
      <<"0">>, <<"-","1","0","0">>, <<"1","0","0",".","5","0">>,
      <<"a","b","c">>, <<"1"," ","0">>, <<>>,
      <<"9","2","2","3","3","7","2","0","3","6","8","5","4","7","7","5","8","0","8">> }   \* 2^63

DescriptionLines == { <<"r","e","n","t">>, <<>> }

(***************************************************************************)
(* The transaction poller                                                  *)
(***************************************************************************)
maxAttempts1 == 60
maxAttempts2 == 40
maxAttempts(i) == IF i = 1 THEN maxAttempts1 ELSE maxAttempts2

\* implementation 2, normalizeStatus
normalizeStatus(s) == ToUpper(TrimSpace(s))

\* The value each implementation compares with "SUCCESSFUL" and "FAILED":
\* implementation 1 switches on strings.ToUpper(status.Status),
\* implementation 2 on normalizeStatus(status.Status).
comparedStatus(i, s) == IF i = 1 THEN ToUpper(s) ELSE normalizeStatus(s)

\* isFinal that takes every status but PENDING for a final one
isFinalUnlessPending(i, s) == comparedStatus(i, s) # PENDING

\* The status ends the poll
isFinal(i, s) == comparedStatus(i, s) \in {SUCCESSFUL, FAILED}

\* First value of the loop variable
firstAttempt(i) == IF i = 1 THEN 0 ELSE 1

\* Loop condition that is off by one in implementation 1
loopContinuesOffByOne(i, attempt) == attempt <= maxAttempts(i)

\* Loop condition: attempt < maxAttempts, resp. attempt <= maxAttempts
loopContinues(i, attempt) ==
    IF i = 1 THEN attempt < maxAttempts(i) ELSE attempt <= maxAttempts(i)

timeoutError(i) ==
    IF i = 1
    THEN Err("timeout", <<"transaction status check timed out after ",
                          ToString(maxAttempts(i)), " attempts">>)
    ELSE Err("timeout", <<"transaction polling timed out">>)

\* Loop body that goes on to the next attempt when the status check failed
pollBodyRetrying(i, r) ==
    IF r.err = None /\ isFinal(i, r.txn.Status)
    THEN [returns |-> TRUE, record |-> r.txn, err |-> None]
    ELSE [returns |-> FALSE, record |-> NoRecord, err |-> None]

\* One pass of the loop body on the result r of checkTransactionStatus:
\* whether pollTransactionStatus returns, and with what.
pollBody(i, r) ==
    IF r.err # None
    THEN [returns |-> TRUE, record |-> NoRecord, err |-> r.err]
    ELSE IF isFinal(i, r.txn.Status)
    THEN [returns |-> TRUE, record |-> r.txn, err |-> None]
    ELSE [returns |-> FALSE, record |-> NoRecord, err |-> None]

\* End of the loop that returns no error
pollTimeoutNil(i) == [record |-> NoRecord, err |-> None]

\* What pollTransactionStatus returns when the loop ends
pollTimeout(i) == [record |-> NoRecord, err |-> timeoutError(i)]

\* run's wrapping of the error of a step (implementation 2 returns it as is)
runError(i, prefix, e) == IF i = 1 THEN Wrap(prefix, e) ELSE e

\* displayFinalStatus that switches on the status as it was received
displayBranchRaw(i, s) ==
    IF s = SUCCESSFUL THEN "SUCCESSFUL"
    ELSE IF s = FAILED THEN "FAILED"
    ELSE "default"

\* The branch of displayFinalStatus's switch
displayBranch(i, s) ==
    IF comparedStatus(i, s) = SUCCESSFUL THEN "SUCCESSFUL"
    ELSE IF comparedStatus(i, s) = FAILED THEN "FAILED"
    ELSE "default"

(***************************************************************************)
(* The terminal statuses as the specification defines them: the status,    *)
(* trimmed and upper-cased, is SUCCESSFUL or FAILED.  Used to observe the  *)
(* run, never by the program.                                              *)
(***************************************************************************)
TerminalStatus(s) == ToUpper(TrimSpace(s)) \in {SUCCESSFUL, FAILED}

(***************************************************************************)
(* State of one run of the program                                         *)
(***************************************************************************)
VARIABLES
    impl,         \* 1 or 2: the implementation that runs
    pc,           \* position of run: "config", "auth", "phone", "amount",
                  \* "description", "collect", "poll", "sleep", "display",
                  \* "exited" (run has returned and main has ended)
    username,     \* APP_USERNAME ("" when not set)
    password,     \* APP_PASSWORD ("" when not set)
    apiBaseURL,   \* base URL chosen from ENVIRONMENT
    token,        \* the access token run holds
    collectReq,   \* the CollectRequest under construction / sent
    reference,    \* the reference collectPayment returned
    attempt,      \* loop variable of pollTransactionStatus
    pollRecord,   \* *TransactionResponse returned by pollTransactionStatus
    pollErr,      \* error returned by pollTransactionStatus
    runErr,       \* error returned by run
    displayed,    \* branch displayFinalStatus took ("" when not called)
    exitCode,     \* exit code of the process (-1 while it runs)
    \* Observations of the run (what an HTTP server and a terminal would see)
    calls,        \* number of requests sent, per endpoint
    sleeps,       \* number of time.Sleep(interval) calls
    sinceCall,    \* sleeps since the last status check
    emptyLines,   \* empty lines typed at the current prompt
    last,         \* the last call: endpoint, response, returned error
    finalSeen,    \* a status check returned a status that, trimmed and
                  \* upper-cased, is SUCCESSFUL or FAILED
    afterFinal,   \* a status check or a sleep took place after that check
    failedAt,     \* index of the first status check that returned an error
    lastInput,    \* the last line read from the terminal, and at which prompt
    sentAuth,     \* the Authorization headers of the requests sent
    sentURLs,     \* the URLs of the status checks sent
    succeeded,    \* the endpoints a call to which returned a nil error
    pollDone      \* pollTransactionStatus has returned

vars == <<impl, pc, username, password, apiBaseURL, token, collectReq,
          reference, attempt, pollRecord, pollErr, runErr, displayed,
          exitCode, calls, sleeps, sinceCall, emptyLines, last, finalSeen,
          afterFinal, failedAt, pollDone, lastInput, sentAuth, sentURLs,
          succeeded>>

NoResponse == [doErr |-> FALSE, readErr |-> FALSE, code |-> 0,
               body |-> NotObj("", "garbage")]
NoCall == [call |-> "none", resp |-> NoResponse, err |-> None]

NoInput == [prompt |-> "none", in |-> EOF]

NoRequest == [Amount |-> <<>>, Currency |-> "", From |-> <<>>,
              Description |-> <<>>, ExternalReference |-> ""]

Init ==
    /\ impl \in {1, 2}
    /\ pc = "config"
    /\ username \in {"", "user"}
    /\ password \in {"", "secret"}
    /\ apiBaseURL = ""
    /\ token = ""
    /\ collectReq = NoRequest
    /\ reference = ""
    /\ attempt = 0
    /\ pollRecord = NoRecord
    /\ pollErr = None
    /\ runErr = None
    /\ displayed = ""
    /\ exitCode = -1
    /\ calls = [token |-> 0, collect |-> 0, status |-> 0]
    /\ sleeps = 0
    /\ sinceCall = 0
    /\ emptyLines = 0
    /\ last = NoCall
    /\ finalSeen = FALSE
    /\ afterFinal = FALSE
    /\ failedAt = 0
    /\ pollDone = FALSE
    /\ lastInput = NoInput
    /\ sentAuth = {}
    /\ sentURLs = {}
    /\ succeeded = {}

\* main that prints the error and returns without os.Exit(1)
exitCodeWithoutExit(e) == 0

\* main: the exit code for the error run returned
exitCodeOf(e) == IF e # None THEN 1 ELSE 0

\* run returns e to main, and main ends the process
Return(e) ==
    /\ runErr' = e
    /\ exitCode' = exitCodeOf(e)
    /\ pc' = "exited"

(***************************************************************************)
(* run, up to the first network call: .env, credentials, base URL          *)
(***************************************************************************)
\* The credentials test with && in the place of ||
credentialsMissingBoth(u, p) == u = "" /\ p = ""

\* username == "" || password == ""
credentialsMissing(u, p) == u = "" \/ p = ""

baseURLFor(environment) ==
    IF environment = "PROD" THEN "https://www.campay.net/api"
    ELSE "https://demo.campay.net/api"

RunConfig ==
    /\ pc = "config"
    /\ \E envFileBroken \in BOOLEAN, environment \in {"", "DEV", "PROD"} :
         IF envFileBroken
         THEN /\ Return(Err("config", <<"failed to load .env">>))
              /\ UNCHANGED apiBaseURL
         ELSE IF credentialsMissing(username, password)
         THEN /\ Return(Err("config", <<"APP_USERNAME and APP_PASSWORD must be set">>))
              /\ UNCHANGED apiBaseURL
         ELSE /\ apiBaseURL' = baseURLFor(environment)
              /\ pc' = "auth"
              /\ UNCHANGED <<runErr, exitCode>>
    /\ UNCHANGED <<impl, username, password, token, collectReq, reference,
                   attempt, pollRecord, pollErr, displayed, calls,
                   sleeps, sinceCall, emptyLines, last, finalSeen, afterFinal, failedAt,
                   pollDone,
                   lastInput, sentAuth, sentURLs, succeeded>>

\* An Authorization header that leaves the token out
authHeaderNoToken(tok) == <<"Token ", "">>

\* req.Header.Set("Authorization", "Token "+token)
authHeader(tok) == <<"Token ", tok>>

\* A status URL built from the client's own external reference
statusURLOfExternalRef(base, ref) == <<base, "/transaction/", "TXN-now", "/">>

\* fmt.Sprintf("%s/transaction/%s/", baseURL, reference)
statusURL(base, ref) == <<base, "/transaction/", ref, "/">>

\* The endpoints that have answered without an error, after this call
succeededAfter(done, call, err) == IF err = None THEN done \cup {call} ELSE done

(***************************************************************************)
(* Step 1: the token                                                       *)
(***************************************************************************)
GetAuthToken ==
    /\ pc = "auth"
    /\ \E resp \in Responses(TokenBodies) :
         LET r == getAuthToken(impl, resp)
         IN  /\ last' = [call |-> "token", resp |-> resp, err |-> r.err]
             /\ token' = r.token
             /\ succeeded' = succeededAfter(succeeded, "token", r.err)
             /\ IF r.err # None
                THEN Return(runError(impl, "authentication failed: ", r.err))
                ELSE pc' = "phone" /\ UNCHANGED <<runErr, exitCode>>
    /\ calls' = [calls EXCEPT !.token = @ + 1]
    /\ UNCHANGED <<impl, username, password, apiBaseURL, collectReq,
                   reference, attempt, pollRecord, pollErr, displayed,
                   sleeps, sinceCall, emptyLines, finalSeen,
                   afterFinal, failedAt, pollDone,
                   lastInput, sentAuth, sentURLs>>

(***************************************************************************)
(* Step 2: the prompts.  One action is one line read at the prompt.        *)
(***************************************************************************)
Inputs(lines) == {EOF} \cup {Line(l) : l \in lines}

\* The part of a prompt action that does not depend on the prompt: `in` may
\* be typed now, and an empty line in implementation 2 re-issues the prompt.
Reprompt(r) ==
    /\ r.again
    /\ emptyLines < MaxEmptyLines
    /\ emptyLines' = emptyLines + 1
    /\ UNCHANGED <<pc, runErr, exitCode, collectReq>>

PromptPhone ==
    /\ pc = "phone"
    /\ \E in \in Inputs(PhoneLines) :
         LET r == promptUser(impl, in)
             v == phoneResult(impl, r.value)
         IN  /\ lastInput' = [prompt |-> "phone", in |-> in]
             /\ \/ Reprompt(r)
                \/ /\ ~r.again
                   /\ emptyLines' = 0
                   /\ IF r.err # None
                      THEN Return(r.err) /\ UNCHANGED collectReq
                      ELSE IF v.err # None
                      THEN Return(v.err) /\ UNCHANGED collectReq
                      ELSE /\ collectReq' = [collectReq EXCEPT !.From = v.phone]
                           /\ pc' = "amount"
                           /\ UNCHANGED <<runErr, exitCode>>
    /\ UNCHANGED <<impl, username, password, apiBaseURL, token, reference,
                   attempt, pollRecord, pollErr, displayed, calls,
                   sleeps, sinceCall, last, finalSeen, afterFinal, failedAt, pollDone,
                   sentAuth, sentURLs, succeeded>>

\* The Amount field of the request: implementation 1 sends the text the user
\* typed, implementation 2 the parsed integer.
requestAmount(i, value, amount) == IF i = 1 THEN value ELSE amount

PromptAmount ==
    /\ pc = "amount"
    /\ \E in \in Inputs(AmountLines) :
         LET r == promptUser(impl, in)
             v == amountResult(impl, r.value)
         IN  /\ lastInput' = [prompt |-> "amount", in |-> in]
             /\ \/ Reprompt(r)
                \/ /\ ~r.again
                   /\ emptyLines' = 0
                   /\ IF r.err # None
                      THEN Return(r.err) /\ UNCHANGED collectReq
                      ELSE IF v.err # None
                      THEN Return(v.err) /\ UNCHANGED collectReq
                      ELSE /\ collectReq' =
                                [collectReq EXCEPT
                                   !.Amount = requestAmount(impl, r.value, v.amount)]
                           /\ pc' = "description"
                           /\ UNCHANGED <<runErr, exitCode>>
    /\ UNCHANGED <<impl, username, password, apiBaseURL, token, reference,
                   attempt, pollRecord, pollErr, displayed, calls,
                   sleeps, sinceCall, last, finalSeen, afterFinal, failedAt, pollDone,
                   sentAuth, sentURLs, succeeded>>

PromptDescription ==
    /\ pc = "description"
    /\ \E in \in Inputs(DescriptionLines) :
         LET r == promptUser(impl, in)
         IN  /\ lastInput' = [prompt |-> "description", in |-> in]
             /\ \/ Reprompt(r)
                \/ /\ ~r.again
                   /\ emptyLines' = 0
                   /\ IF r.err # None
                      THEN Return(r.err) /\ UNCHANGED collectReq
                      ELSE /\ collectReq' =
                                [collectReq EXCEPT
                                   !.Description = r.value,
                                   !.Currency = "XAF",
                                   !.ExternalReference = "TXN-now"]
                           /\ pc' = "collect"
                           /\ UNCHANGED <<runErr, exitCode>>
    /\ UNCHANGED <<impl, username, password, apiBaseURL, token, reference,
                   attempt, pollRecord, pollErr, displayed, calls,
                   sleeps, sinceCall, last, finalSeen, afterFinal, failedAt, pollDone,
                   sentAuth, sentURLs, succeeded>>

(***************************************************************************)
(* Steps 3 and 4: the collection request                                   *)
(***************************************************************************)
CollectPayment ==
    /\ pc = "collect"
    /\ \E resp \in Responses(CollectBodies) :
         LET r == collectPayment(impl, resp)
         IN  /\ last' = [call |-> "collect", resp |-> resp, err |-> r.err]
             /\ reference' = r.reference
             /\ succeeded' = succeededAfter(succeeded, "collect", r.err)
             /\ IF r.err # None
                THEN /\ Return(runError(impl, "failed to initiate payment: ", r.err))
                     /\ UNCHANGED attempt
                ELSE /\ pc' = "poll"
                     /\ attempt' = firstAttempt(impl)
                     /\ UNCHANGED <<runErr, exitCode>>
    /\ calls' = [calls EXCEPT !.collect = @ + 1]
    /\ sentAuth' = sentAuth \cup {authHeader(token)}
    /\ UNCHANGED <<impl, username, password, apiBaseURL, token, collectReq,
                   pollRecord, pollErr, displayed, sleeps,
                   sinceCall, emptyLines, finalSeen, afterFinal, failedAt, pollDone,
                   lastInput, sentURLs>>

(***************************************************************************)
(* Step 5: pollTransactionStatus.  PollCheck is the loop body up to the    *)
(* sleep, PollSleep the sleep, the increment and the loop test.  When the  *)
(* poll returns, run goes on in the same step: it returns the error or     *)
(* goes to displayFinalStatus.                                             *)
(***************************************************************************)
PollReturns(record, err) ==
    /\ pollDone' = TRUE
    /\ pollRecord' = record
    /\ pollErr' = err
    /\ IF err # None
       THEN Return(runError(impl, "failed to get transaction status: ", err))
       ELSE pc' = "display" /\ UNCHANGED <<runErr, exitCode>>

PollCheck ==
    /\ pc = "poll"
    /\ \E resp \in Responses(TxnBodies) :
         LET r == checkTransactionStatus(impl, resp)
             b == pollBody(impl, r)
             k == calls.status + 1   \* this is the k-th status check
         IN  /\ last' = [call |-> "status", resp |-> resp, err |-> r.err]
             /\ finalSeen' =
                  \/ finalSeen
                  \/ r.err = None /\ TerminalStatus(r.txn.Status)
             /\ afterFinal' = (afterFinal \/ finalSeen)
             /\ failedAt' = IF failedAt = 0 /\ r.err # None THEN k ELSE failedAt
             /\ succeeded' = succeededAfter(succeeded, "status", r.err)
             /\ IF b.returns
                THEN PollReturns(b.record, b.err)
                ELSE /\ pc' = "sleep"
                     /\ UNCHANGED <<pollDone, pollRecord, pollErr, runErr, exitCode>>
    /\ calls' = [calls EXCEPT !.status = @ + 1]
    /\ sentAuth' = sentAuth \cup {authHeader(token)}
    /\ sentURLs' = sentURLs \cup {statusURL(apiBaseURL, reference)}
    /\ sinceCall' = 0
    /\ UNCHANGED <<impl, username, password, apiBaseURL, token, collectReq,
                   reference, attempt, displayed, sleeps,
                   emptyLines,
                   lastInput>>

PollSleep ==
    /\ pc = "sleep"
    /\ sleeps' = sleeps + 1
    /\ sinceCall' = sinceCall + 1
    /\ attempt' = attempt + 1
    /\ IF loopContinues(impl, attempt + 1)
       THEN /\ pc' = "poll"
            /\ UNCHANGED <<pollDone, pollRecord, pollErr, runErr, exitCode>>
       ELSE PollReturns(pollTimeout(impl).record, pollTimeout(impl).err)
    /\ afterFinal' = (afterFinal \/ finalSeen)
    /\ UNCHANGED <<impl, username, password, apiBaseURL, token, collectReq,
                   reference, displayed, calls, emptyLines, last,
                   finalSeen, failedAt,
                   lastInput, sentAuth, sentURLs, succeeded>>

(***************************************************************************)
(* Step 6: displayFinalStatus, then run returns nil                        *)
(***************************************************************************)
DisplayFinalStatus ==
    /\ pc = "display"
    /\ displayed' = displayBranch(impl, pollRecord.Status)
    /\ Return(None)
    /\ UNCHANGED <<impl, username, password, apiBaseURL, token, collectReq,
                   reference, attempt, pollRecord, pollErr, calls,
                   sleeps, sinceCall, emptyLines, last, finalSeen, afterFinal, failedAt,
                   pollDone,
                   lastInput, sentAuth, sentURLs, succeeded>>

Next ==
    \/ RunConfig
    \/ GetAuthToken
    \/ PromptPhone
    \/ PromptAmount
    \/ PromptDescription
    \/ CollectPayment
    \/ PollCheck
    \/ PollSleep
    \/ DisplayFinalStatus

Spec == Init /\ [][Next]_vars

TypeOK ==
    /\ impl \in {1, 2}
    /\ sinceCall \in 0..1
    /\ emptyLines \in 0..MaxEmptyLines
    /\ pc \in {"config", "auth", "phone", "amount", "description", "collect",
               "poll", "sleep", "display", "exited"}
    /\ exitCode \in {-1, 0, 1}
    /\ attempt \in 0..(maxAttempts(impl) + 1)
    /\ sleeps \in 0..maxAttempts(impl)
    /\ calls.token \in 0..1 /\ calls.collect \in 0..1
    /\ calls.status \in 0..maxAttempts(impl)

(***************************************************************************)
(* Observations the properties below are stated with                       *)
(***************************************************************************)
\* The attempt budget the specification gives each implementation
Budget(i) == IF i = 1 THEN 60 ELSE 40

\* The last request was a status check, and so on
LastWas(call) == last.call = call

\* The last call received a response with a status code and a body
GotResponse == last.call # "none" /\ ~last.resp.doErr /\ ~last.resp.readErr

\* The status member of the body of the last response ("" when absent)
LastStatus == last.resp.body.f["status"].v

\* The last status check returned a record (200, decodable body)
CheckSucceeded == LastWas("status") /\ last.err = None

\* The last call returned no success value to run
NoValue ==
    /\ LastWas("token") => token = ""
    /\ LastWas("collect") => reference = ""
    /\ LastWas("status") => ~pollRecord.present

\* The error envelope of the last response, as encoding/json decodes it
Envelope == Unmarshal(last.resp.body, {"code", "message"})

\* The body of the last response is a well-formed error envelope: an object
\* whose code and message are strings, the message not empty
WellFormedEnvelope ==
    /\ last.resp.body.kind = "object"
    /\ last.resp.body.f["code"].ty = "str"
    /\ last.resp.body.f["message"].ty = "str"
    /\ last.resp.body.f["message"].v # ""

(***************************************************************************)
(* Properties of the poller                                                *)
(***************************************************************************)

\* C1: once a status check returns a status that, trimmed and upper-cased,
\* is SUCCESSFUL or FAILED, pollTransactionStatus has returned the record of
\* that check with a nil error, and no status check and no sleep follow it
\* (so the k-th check being the first such one, k checks and k-1 sleeps were
\* made).  Implementation 1 does not trim, and polls on after " successful ".
C1_ReturnsAtFirstTerminalStatus ==
    finalSeen =>
        /\ pollDone
        /\ ~afterFinal
        /\ LastWas("status")
        /\ pollErr = None
        /\ pollRecord.present
        /\ pollRecord.Status = LastStatus
        /\ pollRecord.Reference = last.resp.body.f["reference"].v
        /\ sleeps = calls.status - 1
        /\ pc \in {"display", "exited"}

\* C2: while every status check has succeeded with a non-terminal status,
\* the poller never makes more status checks than the budget (60, resp. 40),
\* exactly one sleep separates a check from the one before it, and the poll
\* ends only after exactly that many checks, with a timeout error and no
\* record.
C2_ExhaustsExactlyTheBudget ==
    (~finalSeen /\ failedAt = 0) =>
        /\ calls.status <= Budget(impl)
        /\ (pc = "poll" /\ calls.status > 0) => sinceCall = 1
        /\ pc = "sleep" => sinceCall = 0
        /\ sleeps = calls.status - (IF pc = "sleep" THEN 1 ELSE 0)
        /\ pollDone =>
             /\ calls.status = Budget(impl)
             /\ pollErr # None
             /\ pollErr.kind = "timeout"
             /\ ~pollRecord.present
             /\ exitCode = 1

\* C2 witness: a poll of implementation 1 that saw 60 non-terminal statuses
\* and timed out.
C2_Witness ==
    /\ impl = 1
    /\ pollDone /\ ~finalSeen /\ failedAt = 0
    /\ calls.status = 60
    /\ pollErr.kind = "timeout"

\* C3: once the k-th status check has failed (transport, non-200 or decode
\* error), pollTransactionStatus has returned exactly that error and no
\* record, after k checks and k-1 sleeps: no check, no sleep and no retry
\* follow the failure.
C3_FailedCheckAbortsThePoll ==
    failedAt > 0 =>
        /\ pollDone
        /\ pc = "exited"
        /\ LastWas("status")
        /\ last.err # None
        /\ last.err.kind \in {"transport", "api", "decode"}
        /\ pollErr = last.err
        /\ ~pollRecord.present
        /\ calls.status = failedAt
        /\ sleeps = failedAt - 1

\* C3 witness: the third status check failed in transport and ended the poll.
C3_Witness ==
    /\ failedAt = 3
    /\ pollDone
    /\ pollErr.kind = "transport"
    /\ calls.status = 3

\* C4: right after a status check that returned a record, the poll has ended
\* exactly when the status, trimmed and upper-cased, is SUCCESSFUL or FAILED.
\* Implementation 1 upper-cases without trimming.
C4_ComparesTrimmedUpperCasedStatus ==
    (CheckSucceeded /\ sinceCall = 0) =>
        (pollDone <=> TerminalStatus(LastStatus))

\* C5: a status check that returns a non-terminal status (PENDING, "", a
\* status the client does not model) never ends the poll and its record is
\* never the result: the poller sleeps, then checks again if attempts remain,
\* and otherwise times out; and every record the poll returns is terminal.
C5_NonTerminalStatusNeverEndsThePoll ==
    /\ pollRecord.present => TerminalStatus(pollRecord.Status)
    /\ (CheckSucceeded /\ ~TerminalStatus(LastStatus)) =>
         /\ ~pollRecord.present
         /\ \/ pc = "sleep" /\ sinceCall = 0 /\ ~pollDone
            \/ pc = "poll" /\ sinceCall = 1 /\ ~pollDone
                 /\ calls.status < Budget(impl)
            \/ pc = "exited" /\ sinceCall = 1 /\ pollDone
                 /\ calls.status = Budget(impl)
                 /\ pollErr.kind = "timeout"

\* C5 witness: the second status check returned a status the client does not
\* model, and the poller is about to sleep.
C5_Witness ==
    /\ CheckSucceeded
    /\ LastStatus = <<"E","X","P","I","R","E","D">>
    /\ calls.status = 2
    /\ pc = "sleep"

\* C6: the poll returns either a record or an error, never both and never
\* neither; a status FAILED is returned as the record with a nil error;
\* running out of attempts returns the timeout error and no record.
C6_OutcomesAreDistinguishable ==
    /\ pollDone => (pollRecord.present <=> pollErr = None)
    /\ ~pollDone => (~pollRecord.present /\ pollErr = None)
    /\ (CheckSucceeded /\ LastStatus = FAILED) =>
         /\ pollDone
         /\ pollRecord.present
         /\ pollRecord.Status = FAILED
         /\ pollErr = None
    /\ (pollDone /\ sinceCall = 1) =>
         /\ calls.status = Budget(impl)
         /\ ~pollRecord.present
         /\ pollErr # None
         /\ pollErr.kind = "timeout"
         /\ ~Contains(pollErr, "API error (")
         /\ ~Contains(pollErr, "status check failed (status ")

\* C6 witness: the gateway reported FAILED at the second check and the poll
\* returned that record without an error.
C6_Witness ==
    /\ pollDone
    /\ calls.status = 2
    /\ pollRecord.present
    /\ pollRecord.Status = FAILED
    /\ pollErr = None

(***************************************************************************)
(* Properties of the run                                                   *)
(***************************************************************************)

\* C7: the process exits with code 0 exactly when the poll returned a
\* terminal record (which it then displayed), and with a non-zero code after
\* missing credentials, a validation failure, a failed call or a timeout.
C7_ExitCode ==
    /\ pc # "exited" => exitCode = -1
    /\ pc = "exited" =>
         /\ exitCode \in {0, 1}
         /\ exitCode = 0 <=>
              /\ pollDone
              /\ pollRecord.present
              /\ TerminalStatus(pollRecord.Status)
              /\ displayed # ""
         /\ (username = "" \/ password = "") => exitCode # 0
         /\ runErr.kind \in {"config", "validation", "input", "transport",
                             "api", "decode", "timeout"} => exitCode # 0
         /\ last.err # None => exitCode # 0
         /\ ~pollDone => exitCode # 0

\* C7 witness: a run that ended with code 0 on a gateway-reported FAILED.
C7_Witness ==
    /\ pc = "exited"
    /\ exitCode = 0
    /\ pollRecord.Status = FAILED

(***************************************************************************)
(* Properties of the response / error decoder                              *)
(***************************************************************************)

\* C8: after a non-200 response whose error envelope does not decode or has
\* an empty message, the error the call returned carries the raw body text.
\* Implementation 1 prints the (empty) code and message and drops the body.
C8_RawBodyFallback ==
    (GotResponse /\ last.resp.code # 200
       /\ (Envelope.err \/ Envelope.v["message"] = "")) =>
        /\ last.err # None
        /\ Contains(last.err, last.resp.body.raw)

\* C9: after a non-200 response whose body is a well-formed error envelope
\* with a non-empty message, the call (token, collect or status check) has
\* returned an error and no value, and the text of the error contains the
\* code and the message of the envelope.
C9_EnvelopeCodeAndMessage ==
    (GotResponse /\ last.resp.code # 200 /\ WellFormedEnvelope) =>
        /\ last.err # None
        /\ NoValue
        /\ Contains(last.err, last.resp.body.f["code"].v)
        /\ Contains(last.err, last.resp.body.f["message"].v)

\* C9 witness: a status check answered 400 with code ER201 and message
\* "Invalid amount".
C9_Witness ==
    /\ LastWas("status")
    /\ last.resp.code = 400
    /\ WellFormedEnvelope
    /\ Contains(last.err, "ER201")
    /\ Contains(last.err, "Invalid amount")

\* C10: after a 200 response whose body is not JSON, the call has returned
\* an error and no value, the run has ended with a non-zero exit code, and a
\* status check with such a body was the last one: the poll ended there.
C10_MalformedSuccessBodyIsFatal ==
    (last.call # "none" /\ ~last.resp.doErr /\ last.resp.code = 200
       /\ last.resp.body.kind = "garbage") =>
        /\ last.err # None
        /\ NoValue
        /\ pc = "exited"
        /\ exitCode = 1
        /\ runErr # None
        /\ LastWas("status") =>
             /\ pollDone
             /\ pollErr = last.err
             /\ failedAt = calls.status
             /\ sleeps = calls.status - 1

\* C10 witness: the second status check answered 200 with a body that is not
\* JSON.
C10_Witness ==
    /\ LastWas("status")
    /\ GotResponse
    /\ last.resp.code = 200
    /\ last.resp.body.kind = "garbage"
    /\ calls.status = 2
    /\ pollErr.kind = "decode"


(***************************************************************************)
(* Properties of the transport, the validators and the order of the calls  *)
(***************************************************************************)

\* The member of the response body each call reads its result from
ExpectedField(call) ==
    CASE call = "token" -> "token"
      [] call = "collect" -> "reference"
      [] OTHER -> "status"

\* The last call returned a nil error
LastSucceeded == last.call # "none" /\ last.err = None

\* C11: a call reports success only for a response with status code 200
\* whose body carries the member the call reads (token, reference, status)
\* as a string; hence no request is ever sent with an empty token in its
\* Authorization header or with an empty reference in its status URL.
C11_SuccessNeedsTheExpectedField ==
    /\ LastSucceeded =>
         /\ last.resp.code = 200
         /\ last.resp.body.f[ExpectedField(last.call)].ty = "str"
    /\ authHeader("") \notin sentAuth
    /\ statusURL(apiBaseURL, "") \notin sentURLs


\* The line typed at the last prompt, when that prompt was `prompt`
Typed(prompt) == lastInput.prompt = prompt /\ ~lastInput.in.eof
TypedLine == lastInput.in.line

AllDigits(s) == \A k \in 1..Len(s) : IsDigit(s[k])

\* A local number: 9 digits, the first of them 6
LocalNumber(s) == Len(s) = 9 /\ AllDigits(s) /\ s[1] = "6"

\* The line without any of its whitespace characters
WithoutWhitespace(line) == SelectSeq(line, LAMBDA c : ~IsSpace(c))

\* The line without the whitespace around it and without its space characters
WithoutSpaces(line) == SelectSeq(TrimSpace(line), LAMBDA c : c # " ")

\* The phone prompt accepted the line typed: run goes on to the amount
PhoneAccepted == Typed("phone") /\ pc = "amount"

\* The last prompt ended the run with a validation error, before any
\* collection request
RejectedAt(prompt) ==
    /\ Typed(prompt)
    /\ pc = "exited"
    /\ runErr # None
    /\ runErr.kind = "validation"
    /\ exitCode = 1
    /\ calls.collect = 0

NormalForm(line) ==
    LET n == WithoutWhitespace(line)
    IN  IF LocalNumber(n) THEN CountryCode \o n ELSE n

\* 12 digits, the first three of them 237
WellFormedPhone(n) == Len(n) = 12 /\ HasPrefix(n, CountryCode) /\ AllDigits(n)

\* C13: every non-empty line typed at the phone prompt whose normal form is
\* not 12 characters long, does not start with 237 or holds a character
\* that is not a digit ends the run with a validation error, and no
\* collection request is ever sent for a number of another shape than 237
\* and 9 digits.
C13_MalformedPhoneIsRejected ==
    /\ (/\ Typed("phone")
        /\ WithoutWhitespace(TypedLine) # <<>>
        /\ ~WellFormedPhone(NormalForm(TypedLine))) => RejectedAt("phone")
    /\ calls.collect > 0 => WellFormedPhone(collectReq.From)


\* The digits of an integer string: the string without its sign
Unsigned(s) == IF s # <<>> /\ Head(s) \in {"+", "-"} THEN Tail(s) ELSE s

\* An optional sign and one digit or more
IntegerString(s) == Unsigned(s) # <<>> /\ AllDigits(Unsigned(s))

\* An integer string whose value is greater than zero
PositiveInteger(s) ==
    /\ IntegerString(s)
    /\ Head(s) # "-"
    /\ \E k \in 1..Len(Unsigned(s)) : Unsigned(s)[k] # "0"

\* A positive integer string whose value is at most the largest int
FitsInt(s) == ~OutOfRange(Unsigned(s), FALSE)

\* The value typed at the amount prompt, and whether run went on with it
TypedAmount == TrimSpace(TypedLine)
AmountAccepted == Typed("amount") /\ pc = "description"

\* The value of the Amount field of the request (implementation 1 holds the
\* text, implementation 2 the integer)
AmountSent ==
    IF impl = 1 THEN DigitsValue(Unsigned(collectReq.Amount)) ELSE collectReq.Amount

NextPrompt(prompt) == IF prompt = "phone" THEN "amount" ELSE "description"

\* The line typed last was empty or blank
TypedNothing == TrimSpace(TypedLine) = <<>>

\* C15: at the phone and at the amount prompt, an empty line leaves the run
\* at the same prompt, without an error and without a value passed on; a
\* line that is not empty is never answered by the same prompt again: either
\* run goes on to the next prompt or it ends with a validation error.
C15_OnlyAnEmptyLineIsPromptedAgain ==
    \A p \in {"phone", "amount"} :
        Typed(p) =>
            IF TypedNothing
            THEN pc = p /\ runErr = None /\ exitCode = -1 /\ emptyLines > 0
            ELSE pc = NextPrompt(p) \/ RejectedAt(p)


\* No HTTP request has been sent
NoCalls == calls.token = 0 /\ calls.collect = 0 /\ calls.status = 0

\* The phone number and the amount have both been accepted
InputsValidated == AmountAccepted \/ lastInput.prompt = "description"

\* C16: the token is requested only once the phone number and the amount
\* have been validated, so that a run that ends with a validation error has
\* sent no HTTP request.
C16_ValidationPrecedesEveryCall ==
    /\ calls.token > 0 => InputsValidated
    /\ (runErr # None /\ runErr.kind = "validation") => NoCalls


\* C17: the token endpoint is called at most once; a collect or status
\* request is sent only after that call has returned a token without an
\* error; every collect and status request carries "Token " and that token;
\* and a status check answered by another code than 200 (a 401, say) ends
\* the run with an error, the token having been fetched once.
C17_OneTokenForEveryRequest ==
    /\ calls.token <= 1
    /\ (calls.collect > 0 \/ calls.status > 0) =>
         /\ calls.token = 1
         /\ "token" \in succeeded
         /\ sentAuth = {<<"Token ", token>>}
    /\ (LastWas("status") /\ GotResponse /\ last.resp.code # 200) =>
         /\ pc = "exited"
         /\ runErr # None
         /\ exitCode = 1
         /\ calls.token = 1

\* C17 witness: the third status check was answered 401 and ended the run;
\* collect and the three checks carried the one token fetched.
C17_Witness ==
    /\ LastWas("status")
    /\ last.resp.code = 401
    /\ calls.status = 3
    /\ calls.token = 1
    /\ token = "abc"
    /\ sentAuth = {<<"Token ", "abc">>}
    /\ pc = "exited"


\* C18: when the username or the password is empty, run does nothing but
\* end with a configuration error and exit code 1: no request is sent and
\* nothing is read at a prompt.
C18_MissingCredentialsEndTheRunFirst ==
    (username = "" \/ password = "") =>
        /\ pc \in {"config", "exited"}
        /\ NoCalls
        /\ sentAuth = {} /\ sentURLs = {}
        /\ lastInput = NoInput
        /\ pc = "exited" =>
             /\ runErr # None
             /\ runErr.kind = "config"
             /\ exitCode = 1

\* C18 witness: a run with a username and no password has ended with the
\* configuration error about the credentials.
C18_Witness ==
    /\ username = "user"
    /\ password = ""
    /\ pc = "exited"
    /\ runErr = Err("config", <<"APP_USERNAME and APP_PASSWORD must be set">>)
    /\ NoCalls


\* C19: collect is sent at most once, and only after the token call has
\* succeeded; status checks are sent only after collect has succeeded, and
\* every one of them asks for the reference collect returned; and once the
\* token call, a validation, collect or a status check has failed, the run
\* has ended with that error and no request follows it.
C19_CallsInOrderAndNoneAfterAFailure ==
    /\ calls.collect <= 1
    /\ calls.collect > 0 => calls.token = 1 /\ "token" \in succeeded
    /\ calls.status > 0 =>
         /\ calls.collect = 1
         /\ "collect" \in succeeded
         /\ sentURLs = {<<apiBaseURL, "/transaction/", reference, "/">>}
    /\ last.err # None => pc = "exited" /\ runErr # None /\ exitCode = 1
    /\ runErr # None => pc = "exited"
    /\ (LastWas("token") /\ last.err # None) =>
         calls.collect = 0 /\ calls.status = 0 /\ lastInput = NoInput
    /\ (runErr # None /\ runErr.kind \in {"validation", "input"}) =>
         calls.collect = 0 /\ calls.status = 0
    /\ (LastWas("collect") /\ last.err # None) => calls.status = 0
    /\ failedAt > 0 => calls.status = failedAt

\* C19 witness: after a successful collect that returned r1, the second
\* status check for r1 failed and ended the run.
C19_Witness ==
    /\ reference = "r1"
    /\ failedAt = 2
    /\ calls.status = 2
    /\ calls.collect = 1
    /\ sentURLs = {<<"https://demo.campay.net/api", "/transaction/", "r1", "/">>}
    /\ pc = "exited"


\* 1 when b holds, else 0
Count(b) == IF b THEN 1 ELSE 0

\* C20: every status response is followed by a sleep unless its status,
\* trimmed and upper-cased, is terminal: the sleeps done, with the one the
\* poller is about to do, are as many as the checks made less the one that
\* returned a terminal status and the one that failed; nothing follows a
\* terminal status; and a poll that timed out has slept as many times as it
\* has checked, 60 resp. 40 times.
C20_OneSleepPerNonTerminalResponse ==
    /\ sleeps + Count(pc = "sleep") =
         calls.status - Count(finalSeen) - Count(failedAt > 0)
    /\ ~afterFinal
    /\ (pollDone /\ pollErr # None /\ pollErr.kind = "timeout") =>
         sleeps = Budget(impl) /\ calls.status = Budget(impl)


(***************************************************************************)
(* Properties of the display                                               *)
(***************************************************************************)

\* The status as the poller of this implementation compares it
PollerForm(s) == IF impl = 1 THEN ToUpper(s) ELSE ToUpper(TrimSpace(s))

\* run holds a record the poller returned without an error
HoldsFinalRecord ==
    /\ pollDone
    /\ pollErr = None
    /\ pollRecord.present
    /\ PollerForm(pollRecord.Status) \in {SUCCESSFUL, FAILED}

\* C21: run calls displayFinalStatus only with a record the poller
\* returned without an error, whose status is SUCCESSFUL or FAILED in the
\* form the poller of the same implementation compared; the switch of
\* displayFinalStatus then takes the branch of that status, never the
\* default one; and after a poll that returned an error (a failed check or
\* the timeout) displayFinalStatus is not called.
C21_DisplayOnlyOfATerminalRecord ==
    /\ pc = "display" => HoldsFinalRecord
    /\ displayed # "" =>
         /\ HoldsFinalRecord
         /\ displayed = "SUCCESSFUL" <=> PollerForm(pollRecord.Status) = SUCCESSFUL
         /\ displayed = "FAILED" <=> PollerForm(pollRecord.Status) = FAILED
         /\ displayed # "default"
         /\ pc = "exited" /\ runErr = None /\ exitCode = 0
    /\ (pollDone /\ pollErr # None) =>
         displayed = "" /\ pc = "exited" /\ runErr # None

\* C21 witness: the poller of implementation 2 returned the record with the
\* status " successful ", and displayFinalStatus took the SUCCESSFUL branch.
C21_Witness ==
    /\ impl = 2
    /\ pollRecord.present
    /\ pollRecord.Status = <<" ">> \o LowerOf(SUCCESSFUL) \o <<" ">>
    /\ displayed = "SUCCESSFUL"
    /\ pc = "exited"

====
